---- MODULE Spec2Model ----
(***************************************************************************)
(* web-mapper: the Mapper crawler of web_mapper/scrapers/mapper.py and the *)
(* patterns of web_mapper/scrapers/patterns.py.                            *)
(*                                                                         *)
(* A Python str is a tuple of one-character strings, so that the regular   *)
(* expressions, urlparse and urljoin can be computed character by          *)
(* character.                                                              *)
(***************************************************************************)
EXTENDS Integers, Sequences, FiniteSets, Bags, TLC

VARIABLES
    arg,        \* the domain argument given to Mapper.__init__
    kwargs,     \* the optional arguments given to Mapper.__init__, by name
    status,     \* "new" (no object yet), "ready" (constructed), "error" (raised)
    errmsg,     \* str(exception) when __init__ raised, else <<>>
    domain,     \* self.domain
    max_depth,  \* self.max_depth
    rate_limit, \* self.rate_limit, in tenths of a second
    visited,    \* self.visited
    all_links,  \* self.all_links
    site,       \* the web: what requests.get answers for each URL
    stack,      \* the active invocations of crawl, the innermost last
    op,         \* the public call in progress: "none", "crawl" or "map"
    result,     \* what the last map_web_site() returned
    fetched,    \* how often each URL was passed to requests.get (a bag)
    waits,      \* how often _rate_limit_wait ran
    spaced,     \* whether _rate_limit_wait ran since the last fetch of this call
    invoked,    \* the <<url, depth>> of every invocation of crawl so far
    descents,   \* how many invocations of crawl the link loops of this call made
    calls_left, \* how many public calls the caller still makes
    direct,     \* whether the caller calls crawl itself, not only map_web_site
    pre         \* the public call in progress or last made, and the state it began in

objVars == <<arg, kwargs, status, errmsg, domain, max_depth, rate_limit, visited, all_links>>

runVars == <<site, direct, stack, op, result, fetched, waits, spaced, invoked,
             descents, calls_left, pre>>

vars == <<objVars, runVars>>

(***************************************************************************)
(* Bounds of the model.                                                    *)
(***************************************************************************)
MaxDepth == 2
MaxCalls == 2

(***************************************************************************)
(* Characters and string helpers.                                          *)
(***************************************************************************)
Lower == {"a","b","c","d","e","f","g","h","i","j","k","l","m",
          "n","o","p","q","r","s","t","u","v","w","x","y","z"}

Upper == {"A","B","C","D","E","F","G","H","I","J","K","L","M",
          "N","O","P","Q","R","S","T","U","V","W","X","Y","Z"}

Digit == {"0","1","2","3","4","5","6","7","8","9"}

\* [a-zA-Z]
Alpha == Lower \cup Upper

\* [-a-zA-Z0-9]
HostChars == Alpha \cup Digit \cup {"-"}

\* The elements of a sequence.
Range(q) == { q[i] : i \in DOMAIN q }

\* Whether the literal lit stands in s at position i.
IsAt(s, i, lit) ==
    /\ i + Len(lit) - 1 <= Len(s)
    /\ SubSeq(s, i, i + Len(lit) - 1) = lit

RECURSIVE Repeat(_, _)
\* c * n
Repeat(c, n) == IF n = 0 THEN <<>> ELSE <<c>> \o Repeat(c, n - 1)

RECURSIVE RunLen(_, _, _, _)
\* How many characters of class cls follow from position i, at most max.
RunLen(s, i, cls, max) ==
    IF max = 0 \/ i > Len(s) \/ s[i] \notin cls
    THEN 0
    ELSE 1 + RunLen(s, i + 1, cls, max - 1)

RECURSIVE LStrip(_, _)
LStrip(s, c) == IF s # <<>> /\ Head(s) = c THEN LStrip(Tail(s), c) ELSE s

RECURSIVE RStrip(_, _)
RStrip(s, c) ==
    IF s # <<>> /\ s[Len(s)] = c THEN RStrip(SubSeq(s, 1, Len(s) - 1), c) ELSE s

\* str.strip(c) for a one-character c
Strip(s, c) == RStrip(LStrip(s, c), c)

(***************************************************************************)
(* DOMAIN_PATTERN                                                          *)
(*   https?://(?:www\.)?[-a-zA-Z0-9]{1,63}(?:\.[a-zA-Z]{2,6})+/?           *)
(* matched as re does: greedy, backtracking, leftmost alternative first.   *)
(* A matcher returns the position after the match, or 0 when it fails.     *)
(***************************************************************************)
HostMin == 1
HostMax == 63
SuffixMin == 2
SuffixMax == 6

Http == <<"h","t","t","p">>
ColonSlashSlash == <<":","/","/">>
Www == <<"w","w","w",".">>

\* The first alternative when it matches, else the second.
OrElse(first, second) == IF first # 0 THEN first ELSE second

RECURSIVE MatchSuffixes(_, _)
RECURSIVE MatchSuffixGroup(_, _, _)
\* One group \.[a-zA-Z]{2,6} at i with its n letters, then the repetition:
\* another group is tried before the repetition stops. What follows the
\* repetition, /?, matches everywhere, so a group never gives letters back.
MatchSuffixGroup(s, i, n) ==
    IF n < SuffixMin THEN 0
    ELSE OrElse(MatchSuffixes(s, i + 1 + n), i + 1 + n)

\* (?:\.[a-zA-Z]{2,6})+ from position i; a group takes the longest run of
\* letters it can.
MatchSuffixes(s, i) ==
    IF i <= Len(s) /\ s[i] = "."
    THEN MatchSuffixGroup(s, i, RunLen(s, i + 1, Alpha, SuffixMax))
    ELSE 0

RECURSIVE MatchHost(_, _, _)
\* [-a-zA-Z0-9]{1,63} with n characters, then the suffixes; on failure the
\* host gives characters back one at a time.
MatchHost(s, i, n) ==
    IF n < HostMin THEN 0
    ELSE OrElse(MatchSuffixes(s, i + n), MatchHost(s, i, n - 1))

\* /? after a match that ends before position e
MatchOptionalSlash(s, e) ==
    IF e = 0 THEN 0
    ELSE IF e <= Len(s) /\ s[e] = "/" THEN e + 1 ELSE e

\* host, suffixes and the optional trailing slash
MatchFromHost(s, i) ==
    MatchOptionalSlash(s, MatchHost(s, i, RunLen(s, i, HostChars, HostMax)))

\* The mutant of MatchWww: (?:www\.)? never gives "www." back.
MatchWwwNoBacktrack(s, i) ==
    IF IsAt(s, i, Www) THEN MatchFromHost(s, i + Len(Www)) ELSE MatchFromHost(s, i)

\* (?:www\.)? then the rest: with "www." first, without it when that fails
MatchWww(s, i) ==
    OrElse(IF IsAt(s, i, Www) THEN MatchFromHost(s, i + Len(Www)) ELSE 0,
           MatchFromHost(s, i))

\* DOMAIN_PATTERN at position i: https?:// with the s first, then without
MatchAt(s, i) ==
    IF ~IsAt(s, i, Http) THEN 0
    ELSE OrElse(IF IsAt(s, i + Len(Http), <<"s">> \o ColonSlashSlash)
                THEN MatchWww(s, i + Len(Http) + 1 + Len(ColonSlashSlash))
                ELSE 0,
                IF IsAt(s, i + Len(Http), ColonSlashSlash)
                THEN MatchWww(s, i + Len(Http) + Len(ColonSlashSlash))
                ELSE 0)

RECURSIVE FindallFrom(_, _)
RECURSIVE FindallStep(_, _, _)
\* The search at position i found a match that ends before e, or none (0).
FindallStep(s, i, e) ==
    IF e # 0
    THEN <<SubSeq(s, i, e - 1)>> \o FindallFrom(s, e)
    ELSE FindallFrom(s, i + 1)

FindallFrom(s, i) ==
    IF i > Len(s) THEN <<>> ELSE FindallStep(s, i, MatchAt(s, i))

\* DOMAIN_PATTERN.findall(s): the non-overlapping matches, left to right
DomainFindall(s) == FindallFrom(s, 1)

(***************************************************************************)
(* MapperURLInvalidError and Mapper.__init__                               *)
(***************************************************************************)
\* 'URL fornecida não é válida.'
InvalidMessage ==
    <<"U","R","L"," ","f","o","r","n","e","c","i","d","a"," ",
      "n","ã","o"," ","é"," ","v","á","l","i","d","a",".">>

\* The value of a field that was never assigned.
Unset == "unset"

\* max_depth = 2, rate_limit = 0.5 (tenths of a second)
DefaultMaxDepth == 2
DefaultRateLimit == 5

\* The mutant of InitWith: match[0] kept with its slash.
InitWithSlash(match, md, rl) ==
    IF match = <<>>
    THEN [ status |-> "error", errmsg |-> InvalidMessage,
           domain |-> Unset, max_depth |-> Unset, rate_limit |-> Unset,
           visited |-> Unset, all_links |-> Unset ]
    ELSE [ status |-> "ready", errmsg |-> <<>>,
           domain |-> match[1], max_depth |-> md, rate_limit |-> rl,
           visited |-> {}, all_links |-> {} ]

\* The object, or the error raised, given DOMAIN_PATTERN.findall(domain).
InitWith(match, md, rl) ==
    IF match = <<>>
    THEN [ status |-> "error", errmsg |-> InvalidMessage,
           domain |-> Unset, max_depth |-> Unset, rate_limit |-> Unset,
           visited |-> Unset, all_links |-> Unset ]
    ELSE [ status |-> "ready", errmsg |-> <<>>,
           domain |-> Strip(match[1], "/"), max_depth |-> md, rate_limit |-> rl,
           visited |-> {}, all_links |-> {} ]

\* Mapper.__init__(a, md, rl)
MapperInit(a, md, rl) == InitWith(DomainFindall(a), md, rl)

\* The fields of the Mapper are those of m.
IsMapper(m) ==
    /\ status = m.status
    /\ errmsg = m.errmsg
    /\ domain = m.domain
    /\ max_depth = m.max_depth
    /\ rate_limit = m.rate_limit
    /\ visited = m.visited
    /\ all_links = m.all_links

\* The fields of the Mapper become those of m.
BecomesMapper(m) ==
    /\ status' = m.status
    /\ errmsg' = m.errmsg
    /\ domain' = m.domain
    /\ max_depth' = m.max_depth
    /\ rate_limit' = m.rate_limit
    /\ visited' = m.visited
    /\ all_links' = m.all_links

(***************************************************************************)
(* urllib.parse, as far as Mapper uses it: urlparse(url).netloc and .path, *)
(* and urljoin(self.domain, link). Schemes are taken as written (urlsplit  *)
(* lower-cases them), and urljoin is given links without query, fragment   *)
(* or parameters.                                                          *)
(***************************************************************************)
Slash == <<"/">>

\* The element of a singleton. In The({ f(v) : v \in {e} }) the value of e
\* is computed once and then named v, as Python evaluates an argument or
\* the right-hand side of an assignment once.
The(S) == CHOOSE y \in S : TRUE

RECURSIVE FindChar(_, _, _)
\* The first position from i on that holds a character of cs, Len(s) + 1 if none.
FindChar(s, i, cs) ==
    IF i > Len(s) THEN Len(s) + 1
    ELSE IF s[i] \in cs THEN i ELSE FindChar(s, i + 1, cs)

RECURSIVE LastChar(_, _, _)
\* The last position up to i that holds the character c, 0 if none.
LastChar(s, i, c) ==
    IF i = 0 THEN 0 ELSE IF s[i] = c THEN i ELSE LastChar(s, i - 1, c)

From(s, i) == SubSeq(s, i, Len(s))

EndsWith(s, t) ==
    /\ Len(t) <= Len(s)
    /\ SubSeq(s, Len(s) - Len(t) + 1, Len(s)) = t

SchemeChars == Alpha \cup Digit \cup {"+", "-", "."}

\* The position of the ":" that ends the scheme of url, 0 without a scheme.
SchemeEndAt(url, colon) ==
    IF /\ colon > 1
       /\ colon <= Len(url)
       /\ url[1] \in Alpha
       /\ \A k \in 1 .. colon - 1 : url[k] \in SchemeChars
    THEN colon
    ELSE 0

\* The parameters of the last segment cut off the path.
CutParams(path) ==
    The({ SubSeq(path, 1, FindChar(path, last + 1, {";"}) - 1) :
              last \in {LastChar(path, Len(path), "/")} })

\* The path, up to the query or the fragment.
ParsePath(scheme, netloc, rest) ==
    [ scheme |-> scheme,
      netloc |-> netloc,
      path   |-> The({ CutParams(path) :
                           path \in {SubSeq(rest, 1, FindChar(rest, 1, {"?", "#"}) - 1)} }) ]

\* The netloc, from after "//" to the position nend of the next "/", "?" or "#".
ParseNetloc(scheme, rest, nend) ==
    The({ ParsePath(scheme, SubSeq(rest, 3, nend - 1), after) :
              after \in {From(rest, nend)} })

ParseAfterScheme(scheme, rest) ==
    IF IsAt(rest, 1, <<"/","/">>)
    THEN The({ ParseNetloc(scheme, rest, nend) :
                   nend \in {FindChar(rest, 3, {"/", "?", "#"})} })
    ELSE ParsePath(scheme, <<>>, rest)

UrlParseAt(url, colon) ==
    IF colon = 0
    THEN ParseAfterScheme(<<>>, url)
    ELSE The({ ParseAfterScheme(SubSeq(url, 1, colon - 1), rest) :
                   rest \in {From(url, colon + 1)} })

\* urlparse(url): scheme, netloc and path (the parameters, query and
\* fragment are cut off the path)
UrlParse(url) ==
    The({ UrlParseAt(url, colon) :
              colon \in {SchemeEndAt(url, FindChar(url, 1, {":"}))} })

RECURSIVE SplitSlash(_)
\* s.split('/')
SplitSlash(s) ==
    LET p == FindChar(s, 1, {"/"})
    IN IF p > Len(s) THEN <<s>>
       ELSE <<SubSeq(s, 1, p - 1)>> \o SplitSlash(From(s, p + 1))

RECURSIVE JoinSlash(_)
\* '/'.join(segs)
JoinSlash(segs) ==
    IF segs = <<>> THEN <<>>
    ELSE IF Len(segs) = 1 THEN segs[1]
    ELSE segs[1] \o Slash \o JoinSlash(Tail(segs))

RECURSIVE ResolveSegments(_, _)
\* urljoin's removal of "." and ".." segments
ResolveSegments(segs, acc) ==
    IF segs = <<>> THEN acc
    ELSE LET seg == Head(segs)
         IN IF seg = <<".",".">>
            THEN ResolveSegments(Tail(segs),
                                 IF acc = <<>> THEN acc ELSE SubSeq(acc, 1, Len(acc) - 1))
            ELSE IF seg = <<".">>
            THEN ResolveSegments(Tail(segs), acc)
            ELSE ResolveSegments(Tail(segs), Append(acc, seg))

\* urlunparse((scheme, netloc, path, '', '', '')) for an http(s) scheme
UrlUnparse(scheme, netloc, path) ==
    scheme \o ColonSlashSlash \o netloc
           \o (IF path # <<>> /\ Head(path) # "/" THEN Slash ELSE <<>>) \o path

\* base_parts without its last element, unless that is ''
BaseDir(parts) ==
    IF parts[Len(parts)] # <<>> THEN SubSeq(parts, 1, Len(parts) - 1) ELSE parts

\* segments[1:-1] = filter(None, segments[1:-1])
FilterInner(segs) ==
    IF Len(segs) < 2 THEN segs
    ELSE <<segs[1]>>
         \o SelectSeq(SubSeq(segs, 2, Len(segs) - 1), LAMBDA g : g # <<>>)
         \o <<segs[Len(segs)]>>

\* The segments urljoin resolves: those of an absolute path, or the
\* directory of the base followed by those of a relative path.
JoinSegments(bpath, path) ==
    IF Head(path) = "/"
    THEN SplitSlash(path)
    ELSE FilterInner(BaseDir(SplitSlash(bpath)) \o SplitSlash(path))

ResolvePath(segments) ==
    ResolveSegments(segments, <<>>)
    \o (IF segments[Len(segments)] \in {<<".">>, <<".",".">>} THEN << <<>> >> ELSE <<>>)

\* '/'.join(resolved_path) or '/'
OrSlash(path) == IF path = <<>> THEN Slash ELSE path

\* urljoin for the parsed base b and the parsed url u
JoinParsed(url, b, u) ==
    IF u.scheme # <<>> /\ u.scheme # b.scheme THEN url
    ELSE IF u.netloc # <<>> THEN UrlUnparse(b.scheme, u.netloc, u.path)
    ELSE IF u.path = <<>> THEN UrlUnparse(b.scheme, b.netloc, b.path)
    ELSE UrlUnparse(b.scheme, b.netloc,
                    The({ OrSlash(JoinSlash(resolved_path)) :
                              resolved_path \in
                                  { ResolvePath(segments) :
                                        segments \in {JoinSegments(b.path, u.path)} } }))

\* urljoin(base, url) for an http(s) base
Urljoin(base, url) ==
    IF base = <<>> THEN url
    ELSE IF url = <<>> THEN base
    ELSE The({ JoinParsed(url, b, u) : b \in {UrlParse(base)}, u \in {UrlParse(url)} })

(***************************************************************************)
(* LINK_PATTERN = ^/ and the helpers of Mapper                             *)
(***************************************************************************)
\* The mutant of LinkPatternMatch: the pattern ^/. in place of ^/
LinkPatternMatchLonger(link) == Len(link) > 1 /\ Head(link) = "/"

\* LINK_PATTERN.match(link)
LinkPatternMatch(link) == link # <<>> /\ Head(link) = "/"

\* the extensions _is_valid_url refuses
NonContentExts ==
    { <<".","p","d","f">>, <<".","j","p","g">>, <<".","j","p","e","g">>,
      <<".","p","n","g">>, <<".","g","i","f">>, <<".","s","v","g">> }

\* The mutant of IsValidParsed: the scheme compared too.
IsValidParsedSameScheme(parsed_url, domain_parsed) ==
    IF parsed_url.scheme # domain_parsed.scheme THEN FALSE
    ELSE IF parsed_url.netloc # domain_parsed.netloc THEN FALSE
    ELSE IF \E ext \in NonContentExts : EndsWith(parsed_url.path, ext) THEN FALSE
    ELSE TRUE

\* The two tests of _is_valid_url on the parsed URLs.
IsValidParsed(parsed_url, domain_parsed) ==
    IF parsed_url.netloc # domain_parsed.netloc THEN FALSE
    ELSE IF \E ext \in NonContentExts : EndsWith(parsed_url.path, ext) THEN FALSE
    ELSE TRUE

\* self._is_valid_url(url), for a Mapper whose domain is dom
IsValidUrlFor(dom, url) ==
    The({ IsValidParsed(parsed_url, domain_parsed) :
              parsed_url \in {UrlParse(url)}, domain_parsed \in {UrlParse(dom)} })

\* The mutant of CleanLinks: LINK_PATTERN not asked.
CleanLinksUnfiltered(links) ==
    { links[i] : i \in { k \in DOMAIN links : links[k] # <<>> } }

\* The mutant of CleanLinks: the links after the first one that is refused
\* are lost.
CleanLinksUntilRefused(links) ==
    { links[i] : i \in { k \in DOMAIN links :
                            \A j \in 1 .. k : links[j] # <<>> /\ LinkPatternMatch(links[j]) } }

\* Mapper._clean_links(links), before list(): the set comprehension
CleanLinks(links) ==
    { links[i] : i \in { k \in DOMAIN links : links[k] # <<>> /\ LinkPatternMatch(links[k]) } }

(***************************************************************************)
(* The inputs of the constructor.                                          *)
(***************************************************************************)
Cat6(a, b, c, d, e, f) == a \o b \o c \o d \o e \o f

Prefixes == { <<>>, <<"x">> }

Schemes == { Http \o ColonSlashSlash, Http \o <<"s">> \o ColonSlashSlash,
             <<"f","t","p">> \o ColonSlashSlash, <<>>, Http \o <<":","/">> }

WwwParts == { <<>>, Www }

Hosts == { <<"h">>, <<"a","-","1">>, <<>>, <<"w","w","w">>, <<"h","_">> }

\* hosts of HostMax and of HostMax + 1 characters
LongHosts == { Repeat("a", HostMax), Repeat("a", HostMax + 1) }

Suffixes == { <<".","c","o">>, <<".","c">>, <<".","c","o","m",".","b","r">>, <<>>,
              <<".","a","b","c","d","e","f","g">>, <<".","c","0","m">>,
              <<".",".","c","o">> }

Tails == { <<>>, <<"/">>, <<"/","/">>, <<"/","p">>, <<".">> }

DomainInputs ==
    { Cat6(p, s, w, h, x, t) : p \in Prefixes, s \in Schemes, w \in WwwParts,
                               h \in Hosts, x \in Suffixes, t \in Tails }
    \cup
    { Cat6(<<>>, Http \o ColonSlashSlash, w, h, <<".","c","o">>, t) :
          w \in WwwParts, h \in LongHosts, t \in { <<>>, <<"/","p">> } }

DepthInputs == 0 .. MaxDepth

RateInputs == {0, DefaultRateLimit}

\* The optional arguments of a call that gives max_depth when D holds it
\* and rate_limit when R holds it (D and R hold one value at most).
Kw(D, R) ==
    [ name \in { n \in {"max_depth"} : D # {} } \cup { n \in {"rate_limit"} : R # {} } |->
          IF name = "max_depth" THEN The(D) ELSE The(R) ]

\* None or one of the values of S.
Optional(S) == { {} } \cup { {x} : x \in S }

KwInputs == { Kw(D, R) : D \in Optional(DepthInputs), R \in Optional(RateInputs) }

\* The value of the parameter name: the one given, or the default of the
\* signature.
Param(kw, name, default) == IF name \in DOMAIN kw THEN kw[name] ELSE default

\* Mapper(a, **kw)
NewMapper(a, kw) ==
    MapperInit(a, Param(kw, "max_depth", DefaultMaxDepth),
                  Param(kw, "rate_limit", DefaultRateLimit))

(***************************************************************************)
(* The constructor's specification: no object, then Mapper(a, md, rl).     *)
(***************************************************************************)
InitNew ==
    /\ arg = <<>>
    /\ kwargs = <<>>
    /\ status = "new"
    /\ errmsg = <<>>
    /\ domain = Unset
    /\ max_depth = Unset
    /\ rate_limit = Unset
    /\ visited = Unset
    /\ all_links = Unset
    /\ site = <<>>
    /\ direct = FALSE
    /\ stack = <<>>
    /\ op = "none"
    /\ result = Unset
    /\ fetched = EmptyBag
    /\ waits = 0
    /\ spaced = TRUE
    /\ invoked = {}
    /\ descents = 0
    /\ calls_left = 0
    /\ pre = Unset

Construct ==
    /\ status = "new"
    /\ \E a \in DomainInputs, kw \in KwInputs :
           /\ arg' = a
           /\ kwargs' = kw
           /\ BecomesMapper(NewMapper(a, kw))
    /\ UNCHANGED runVars

NextInit == Construct

SpecInit == InitNew /\ [][NextInit]_vars

(***************************************************************************)
(* sorted(): Python orders str by code point.                              *)
(***************************************************************************)
\* The printable ASCII characters from " " (32) to "~" (126), in order; the
\* place of the grave accent (96) is left empty.
Ascii ==
    <<" ","!","\"","#","$","%","&","'","(",")","*","+",",","-",".","/",
      "0","1","2","3","4","5","6","7","8","9",":",";","<","=",">","?","@",
      "A","B","C","D","E","F","G","H","I","J","K","L","M",
      "N","O","P","Q","R","S","T","U","V","W","X","Y","Z",
      "[","\\","]","^","_","",
      "a","b","c","d","e","f","g","h","i","j","k","l","m",
      "n","o","p","q","r","s","t","u","v","w","x","y","z",
      "{","|","}","~">>

\* ord(c)
Ord(c) == 31 + CHOOSE i \in DOMAIN Ascii : Ascii[i] = c

RECURSIVE StrLess(_, _)
\* s < t for two str
StrLess(s, t) ==
    IF t = <<>> THEN FALSE
    ELSE IF s = <<>> THEN TRUE
    ELSE IF Head(s) = Head(t) THEN StrLess(Tail(s), Tail(t))
    ELSE Ord(Head(s)) < Ord(Head(t))

\* The least str of a non-empty set.
Least(S) == CHOOSE x \in S : \A y \in S \ {x} : StrLess(x, y)

RECURSIVE SortedDescending(_)
\* The mutant of Sorted: the order reversed.
SortedDescending(S) ==
    IF S = {} THEN <<>>
    ELSE SortedDescending(S \ {Least(S)}) \o <<Least(S)>>

RECURSIVE Sorted(_)
\* sorted(S) for a set of str
Sorted(S) ==
    IF S = {} THEN <<>>
    ELSE <<Least(S)>> \o Sorted(S \ {Least(S)})

(***************************************************************************)
(* The web. A response is the status of the answer and, for an answer that *)
(* raise_for_status accepts, the <a> elements of its markup: each has an   *)
(* href attribute or none. A URL the site does not serve answers 404.      *)
(* An answer that raise_for_status refuses has markup too.                 *)
(***************************************************************************)
Seed == Http \o ColonSlashSlash \o <<"h",".","c","o">>

\* The seeds given to the constructor of the crawls.
SeedInputs == { Seed \o Slash }

PathA == <<"/","a">>
PathB == <<"/","b">>
PathC == <<"/","c">>

\* The URLs the site serves.
Pages == { Seed, Seed \o PathA, Seed \o PathB, Seed \o PathC }

A(href) == [has_href |-> TRUE, href |-> href]

NoHref == [has_href |-> FALSE, href |-> <<>>]

\* A page with every kind of link: to the seed and to another host by a
\* network-path reference, an empty href, a PDF, an absolute URL, an anchor
\* without href, and a followable link given twice.
MixedPage ==
    << A(<<"/","/","h",".","c","o">>), A(<<>>), A(PathC \o <<".","p","d","f">>),
       A(<<"/","/","o",".","i","o","/","a">>), NoHref, A(Seed \o PathB),
       A(PathC), A(PathC) >>

Markups == { <<>>, <<A(PathA), A(PathB)>>, <<A(PathB)>>, MixedPage }

\* The answer to a request that fails, an error page with a link on it:
\* raise_for_status raises.
NotFound == [ok |-> FALSE, anchors |-> <<A(PathA), A(PathC)>>]

Responses == { [ok |-> TRUE, anchors |-> m] : m \in Markups } \cup { NotFound }

\* The sites of the model: an answer for each of Pages.
Sites == [Pages -> Responses]

\* The sites on which the caller makes MaxCalls public calls, of crawl or of
\* map_web_site; on the others it calls map_web_site once.
CallSites ==
    { w \in Sites :
        /\ w[Seed].ok /\ w[Seed].anchors \in { <<A(PathA), A(PathB)>>, MixedPage }
        /\ w[Seed \o PathB].ok /\ w[Seed \o PathB].anchors \in { <<>>, MixedPage }
        /\ w[Seed \o PathC] = NotFound }

\* The URLs a caller passes to crawl.
CallUrls == { Seed, Seed \o PathA }

\* What requests.get(url) and raise_for_status() come to.
Respond(web, url) ==
    IF url \in DOMAIN web THEN web[url] ELSE NotFound

\* The mutant of Soup: the status of the answer ignored.
SoupAnyStatus(response) == response.anchors

\* The markup of a response, empty after a RequestException.
Soup(response) == IF response.ok THEN response.anchors ELSE <<>>

\* Mapper._get_page(url)
GetPage(web, url) == Soup(Respond(web, url))

\* [link.get('href') for link in found]
Hrefs(found) == [i \in DOMAIN found |-> found[i].href]

\* Mapper._find_links(soup)
FindLinks(soup) == Hrefs(SelectSeq(soup, LAMBDA a : a.has_href))

(***************************************************************************)
(* Mapper.crawl and Mapper.map_web_site, one step per statement that a     *)
(* claim tells apart. A frame of the stack is one invocation of crawl:     *)
(* its url and depth, where it stands (pc) and the links of clean_links    *)
(* the loop has not reached yet (todo).                                    *)
(*   "enter": at the two guards       "fetch": url added to visited        *)
(*   "loop":  at the head of the for  "wait":  the recursive call returned *)
(***************************************************************************)
Frame(u, d) == [url |-> u, depth |-> d, pc |-> "enter", todo |-> {}]

Top == stack[Len(stack)]

Running == stack # <<>>

SetTop(f) == [stack EXCEPT ![Len(stack)] = f]

\* self._is_valid_url(url)
IsValidUrl(url) == IsValidUrlFor(domain, url)

\* Before the first public call.
NoCall ==
    [ op |-> "none", url |-> <<>>, depth |-> 0, first |-> "none",
      last |-> <<"none", <<>>, 0>>, visited |-> {}, all_links |-> {},
      fetched |-> EmptyBag, waits |-> 0, result |-> Unset ]

\* The public call o on (u, d) and the state it begins in; first is the
\* first public call made on the Mapper, last the call before this one.
Snapshot(o, u, d) ==
    [ op |-> o, url |-> u, depth |-> d,
      first |-> IF pre.first = "none" THEN o ELSE pre.first,
      last |-> <<pre.op, pre.url, pre.depth>>,
      visited |-> visited, all_links |-> all_links,
      fetched |-> fetched, waits |-> waits, result |-> result ]

\* mapper.crawl(u, d), called from outside
CallCrawl ==
    /\ status = "ready" /\ op = "none" /\ calls_left > 0
    /\ direct
    /\ \E u \in CallUrls, d \in 0 .. max_depth + 1 :
           /\ stack' = <<Frame(u, d)>>
           /\ invoked' = invoked \cup {<<u, d>>}
           /\ pre' = Snapshot("crawl", u, d)
    /\ op' = "crawl"
    /\ calls_left' = calls_left - 1
    /\ descents' = 0
    /\ spaced' = TRUE
    /\ UNCHANGED <<objVars, site, direct, result, fetched, waits>>

\* mapper.map_web_site(): self.crawl(self.domain, 0)
CallMapWebSite ==
    /\ status = "ready" /\ op = "none" /\ calls_left > 0
    /\ stack' = <<Frame(domain, 0)>>
    /\ invoked' = invoked \cup {<<domain, 0>>}
    /\ pre' = Snapshot("map", domain, 0)
    /\ op' = "map"
    /\ calls_left' = calls_left - 1
    /\ descents' = 0
    /\ spaced' = TRUE
    /\ UNCHANGED <<objVars, site, direct, result, fetched, waits>>

\* The innermost crawl returns; a public crawl() is then over.
Return ==
    /\ stack' = SubSeq(stack, 1, Len(stack) - 1)
    /\ op' = IF Len(stack) = 1 /\ op = "crawl" THEN "none" ELSE op

\* The mutant of DepthExceeded: one level too few.
DepthExceededEarly(depth) == depth >= max_depth

\* The mutant of DepthExceeded: one level too many.
DepthExceededLate(depth) == depth > max_depth + 1

\* depth > self.max_depth
DepthExceeded(depth) == depth > max_depth

\* The mutant of CrawlOverDepth: visited.add(url) moved above the guard.
CrawlOverDepthMarking ==
    /\ Running /\ Top.pc = "enter"
    /\ DepthExceeded(Top.depth)
    /\ Return
    /\ visited' = visited \cup {Top.url}
    /\ UNCHANGED <<arg, kwargs, status, errmsg, domain, max_depth, rate_limit, all_links,
                   site, direct, result, fetched, waits, spaced, invoked, descents, calls_left, pre>>

\* if depth > self.max_depth: return
CrawlOverDepth ==
    /\ Running /\ Top.pc = "enter"
    /\ DepthExceeded(Top.depth)
    /\ Return
    /\ UNCHANGED <<objVars, site, direct, result, fetched, waits, spaced, invoked, descents, calls_left, pre>>

\* The mutant of AlreadyVisited: the guard forgotten.
AlreadyVisitedNever(url) == FALSE

\* url in self.visited
AlreadyVisited(url) == url \in visited

\* if url in self.visited: return
CrawlAlreadyVisited ==
    /\ Running /\ Top.pc = "enter"
    /\ ~DepthExceeded(Top.depth)
    /\ AlreadyVisited(Top.url)
    /\ Return
    /\ UNCHANGED <<objVars, site, direct, result, fetched, waits, spaced, invoked, descents, calls_left, pre>>

\* The mutant of CrawlVisit: self.visited.add(url) left out.
CrawlVisitNoAdd ==
    /\ Running /\ Top.pc = "enter"
    /\ ~DepthExceeded(Top.depth)
    /\ ~AlreadyVisited(Top.url)
    /\ stack' = SetTop([Top EXCEPT !.pc = "fetch"])
    /\ UNCHANGED <<objVars, site, direct, op, result, fetched, waits, spaced, invoked, descents, calls_left, pre>>

\* self.visited.add(url)
CrawlVisit ==
    /\ Running /\ Top.pc = "enter"
    /\ ~DepthExceeded(Top.depth)
    /\ ~AlreadyVisited(Top.url)
    /\ visited' = visited \cup {Top.url}
    /\ stack' = SetTop([Top EXCEPT !.pc = "fetch"])
    /\ UNCHANGED <<arg, kwargs, status, errmsg, domain, max_depth, rate_limit, all_links,
                   site, direct, op, result, fetched, waits, spaced, invoked, descents, calls_left, pre>>

\* html = self._get_page(url); links = self._find_links(html);
\* clean_links = self._clean_links(links)
CrawlFetch ==
    /\ Running /\ Top.pc = "fetch"
    /\ stack' = SetTop([Top EXCEPT !.pc = "loop",
                                   !.todo = CleanLinks(FindLinks(GetPage(site, Top.url)))])
    /\ fetched' = fetched (+) SetToBag({Top.url})
    /\ spaced' = FALSE
    /\ UNCHANGED <<objVars, site, direct, op, result, waits, invoked, descents, calls_left, pre>>

\* The mutant of ShouldFollow: _is_valid_url not asked.
ShouldFollowUnchecked(absolute_url) == absolute_url \notin visited

\* The mutant of ShouldFollow: visited not asked.
ShouldFollowVisited(absolute_url) == IsValidUrl(absolute_url)

\* The test of the loop body, for the absolute URL of a link.
ShouldFollow(absolute_url) ==
    IsValidUrl(absolute_url) /\ absolute_url \notin visited

\* The mutant of Follow: self._rate_limit_wait() left out.
FollowNoWait(link, absolute_url) ==
    /\ ShouldFollow(absolute_url)
    /\ all_links' = all_links \cup {absolute_url}
    /\ stack' = Append(SetTop([Top EXCEPT !.pc = "loop", !.todo = Top.todo \ {link}]),
                       Frame(absolute_url, Top.depth + 1))
    /\ invoked' = invoked \cup {<<absolute_url, Top.depth + 1>>}
    /\ descents' = descents + 1

\* The mutant of Follow: all_links.add(absolute_url) left out.
FollowUnrecorded(link, absolute_url) ==
    /\ ShouldFollow(absolute_url)
    /\ all_links' = all_links
    /\ stack' = Append(SetTop([Top EXCEPT !.pc = "wait", !.todo = Top.todo \ {link}]),
                       Frame(absolute_url, Top.depth + 1))
    /\ invoked' = invoked \cup {<<absolute_url, Top.depth + 1>>}
    /\ descents' = descents + 1

\* self.all_links.add(absolute_url); self.crawl(absolute_url, depth + 1)
Follow(link, absolute_url) ==
    /\ ShouldFollow(absolute_url)
    /\ all_links' = all_links \cup {absolute_url}
    /\ stack' = Append(SetTop([Top EXCEPT !.pc = "wait", !.todo = Top.todo \ {link}]),
                       Frame(absolute_url, Top.depth + 1))
    /\ invoked' = invoked \cup {<<absolute_url, Top.depth + 1>>}
    /\ descents' = descents + 1

\* for link in clean_links, the body taken: list(cleaned) may be in any
\* order, so the next link is any of those left.
CrawlFollowLink ==
    /\ Running /\ Top.pc = "loop"
    /\ \E link \in Top.todo :
           \E absolute_url \in {Urljoin(domain, link)} : Follow(link, absolute_url)
    /\ UNCHANGED <<arg, kwargs, status, errmsg, domain, max_depth, rate_limit, visited,
                   site, direct, op, result, fetched, waits, spaced, calls_left, pre>>

\* for link in clean_links, the body skipped
CrawlSkipLink ==
    /\ Running /\ Top.pc = "loop"
    /\ \E link \in Top.todo :
           \E absolute_url \in {Urljoin(domain, link)} :
               /\ ~ShouldFollow(absolute_url)
               /\ stack' = SetTop([Top EXCEPT !.todo = Top.todo \ {link}])
    /\ UNCHANGED <<objVars, site, direct, op, result, fetched, waits, spaced, invoked, descents, calls_left, pre>>

\* self._rate_limit_wait(), after the recursive call returned
RateLimitWait ==
    /\ Running /\ Top.pc = "wait"
    /\ waits' = waits + 1
    /\ stack' = SetTop([Top EXCEPT !.pc = "loop"])
    /\ spaced' = TRUE
    /\ UNCHANGED <<objVars, site, direct, op, result, fetched, invoked, descents, calls_left, pre>>

\* The loop is exhausted: crawl returns.
CrawlLoopEnd ==
    /\ Running /\ Top.pc = "loop"
    /\ Top.todo = {}
    /\ Return
    /\ UNCHANGED <<objVars, site, direct, result, fetched, waits, spaced, invoked, descents, calls_left, pre>>

\* return sorted(self.all_links)
MapWebSiteReturn ==
    /\ op = "map" /\ ~Running
    /\ result' = Sorted(all_links)
    /\ op' = "none"
    /\ UNCHANGED <<objVars, site, direct, stack, fetched, waits, spaced, invoked, descents, calls_left, pre>>

\* A Mapper constructed on a seed, before any call, and some web.
Init ==
    /\ \E a \in SeedInputs, kw \in { Kw({md}, {}) : md \in DepthInputs } :
           /\ arg = a
           /\ kwargs = kw
           /\ IsMapper(NewMapper(a, kw))
    /\ site \in Sites
    /\ direct = (site \in CallSites)
    /\ stack = <<>>
    /\ op = "none"
    /\ result = Unset
    /\ fetched = EmptyBag
    /\ waits = 0
    /\ spaced = TRUE
    /\ invoked = {}
    /\ descents = 0
    /\ calls_left = (IF direct THEN MaxCalls ELSE 1)
    /\ pre = NoCall

Next ==
    \/ CallCrawl
    \/ CallMapWebSite
    \/ CrawlOverDepth
    \/ CrawlAlreadyVisited
    \/ CrawlVisit
    \/ CrawlFetch
    \/ CrawlFollowLink
    \/ CrawlSkipLink
    \/ RateLimitWait
    \/ CrawlLoopEnd
    \/ MapWebSiteReturn

Spec == Init /\ [][Next]_vars

\* Python runs the one thread of a call to its end: a step that can be
\* taken is taken.
FairSpec == Spec /\ WF_vars(Next)

(***************************************************************************)
(* The helpers called on their own, on a Mapper no call is running on:     *)
(* _is_valid_url(url) and _clean_links(links) change nothing of the        *)
(* Mapper; pre is the call and result what it returned.                    *)
(***************************************************************************)
\* the longest list of links given to _clean_links
MaxLinks == 3

\* The seeds of the Mappers the helpers are called on.
HelperSeeds == { Seed \o Slash, Http \o <<"s">> \o ColonSlashSlash \o Www \o <<"h",".","c","o">> }

\* The webs of the Mappers the helpers are called on.
HelperSites ==
    { w \in Sites :
        /\ w[Seed].ok /\ w[Seed].anchors \in { <<A(PathA), A(PathB)>>, MixedPage }
        /\ w[Seed \o PathA].ok /\ w[Seed \o PathA].anchors = <<A(PathB)>>
        /\ w[Seed \o PathB].ok /\ w[Seed \o PathB].anchors \in { <<>>, MixedPage }
        /\ w[Seed \o PathC] = NotFound }

UrlSchemes == { Http \o ColonSlashSlash, Http \o <<"s">> \o ColonSlashSlash,
                <<"f","t","p">> \o ColonSlashSlash, <<"/","/">>, <<>> }

UrlHosts == { <<"h",".","c","o">>, Www \o <<"h",".","c","o">>, <<"h",".","c","o",":","8","0">>,
              <<"o",".","i","o">>, <<"H",".","c","o">>, <<>> }

UrlPaths ==
    { <<>>, <<"/">>, PathA, <<"/","a",".","P","D","F">>, <<"/","a","p","d","f">>,
      <<"/","a",".","p","d","f","/">>, <<"/","a",".","p","d","f","?","q">>,
      <<"/","a","?","q",".","p","d","f">>, <<"/","a","#",".","p","n","g">>,
      <<"/","a",".","g","i","f",";","p">>, <<"/","a",";","p",".","g","i","f">> }
    \cup { PathA \o ext : ext \in NonContentExts }

\* The URLs given to _is_valid_url.
UrlInputs == { s \o h \o p : s \in UrlSchemes, h \in UrlHosts, p \in UrlPaths }

\* The links given to _clean_links.
LinkInputs ==
    { <<>>, <<"/">>, PathA, <<"/","/","o",".","i","o">>, Seed \o PathB,
      <<"h","t","t","p","s",":","/","/","x">>, <<"f","t","p",":","/","/","x">>, <<"a","/">> }

LinkLists == UNION { [1 .. n -> LinkInputs] : n \in 0 .. MaxLinks }

\* list(S): the elements of S once each, in any order
ListsOf(S) == { q \in [1 .. Cardinality(S) -> S] : Range(q) = S }

\* The call of the helper name on the argument x; again when x is what the
\* call before, of the same helper, returned.
HelperCall(name, x) == [op |-> name, input |-> x, again |-> pre.op = name]

HelperNames == { "_is_valid_url", "_clean_links" }

\* The lists the caller gives to _clean_links: any of LinkLists the first
\* time, and then what _clean_links returned.
GivenLinks == IF pre.op = "_clean_links" THEN {result} ELSE LinkLists

\* mapper._is_valid_url(url)
CallIsValidUrl ==
    /\ status = "ready" /\ op = "none" /\ ~Running /\ calls_left = 0
    /\ pre.op \notin HelperNames
    /\ \E url \in UrlInputs :
           /\ pre' = HelperCall("_is_valid_url", url)
           /\ result' = IsValidUrl(url)
    /\ UNCHANGED <<objVars, site, direct, stack, op, fetched, waits, spaced, invoked,
                   descents, calls_left>>

\* mapper._clean_links(links)
CallCleanLinks ==
    /\ status = "ready" /\ op = "none" /\ ~Running /\ calls_left = 0
    /\ pre.op # "_is_valid_url"
    /\ \E links \in GivenLinks :
           /\ pre' = HelperCall("_clean_links", links)
           /\ result' \in ListsOf(CleanLinks(links))
    /\ UNCHANGED <<objVars, site, direct, stack, op, fetched, waits, spaced, invoked,
                   descents, calls_left>>

\* A Mapper constructed on a seed and some web; map_web_site() is called on
\* it once, or not at all, before the helpers.
InitHelpers ==
    /\ \E a \in HelperSeeds, kw \in { Kw({md}, {}) : md \in {1} } :
           /\ arg = a
           /\ kwargs = kw
           /\ IsMapper(NewMapper(a, kw))
    /\ site \in HelperSites
    /\ direct = FALSE
    /\ stack = <<>>
    /\ op = "none"
    /\ result = Unset
    /\ fetched = EmptyBag
    /\ waits = 0
    /\ spaced = TRUE
    /\ invoked = {}
    /\ descents = 0
    /\ calls_left \in {0, 1}
    /\ pre = NoCall

\* The steps of map_web_site() on a fresh Mapper and the helpers. crawl is
\* not called from outside here, so its guard on visited never holds: the
\* loop keeps the visited URLs out of the recursion.
NextHelpers ==
    \/ CallMapWebSite
    \/ CrawlOverDepth
    \/ CrawlVisit
    \/ CrawlFetch
    \/ CrawlFollowLink
    \/ CrawlSkipLink
    \/ RateLimitWait
    \/ CrawlLoopEnd
    \/ MapWebSiteReturn
    \/ CallIsValidUrl
    \/ CallCleanLinks

SpecHelpers == InitHelpers /\ [][NextHelpers]_vars

(***************************************************************************)
(* The shape http(s)://[www.]host(.suffix)+[/] as a set of decompositions, *)
(* independent of the order in which re tries them.                        *)
(***************************************************************************)
\* The positions after one more ".suffix" group begun at a position of I.
SuffixStep(s, I) ==
    { e \in 1 .. Len(s) + 1 :
        \E i \in I, k \in SuffixMin .. SuffixMax :
            /\ e = i + 1 + k
            /\ i <= Len(s)
            /\ s[i] = "."
            /\ \A j \in i + 1 .. i + k : j <= Len(s) /\ s[j] \in Alpha }

RECURSIVE SuffixPlus(_, _)
\* The positions after one or more groups.
SuffixPlus(s, I) ==
    LET n == SuffixStep(s, I)
    IN IF n = {} THEN {} ELSE n \cup SuffixPlus(s, n)

\* The positions at which a string of the shape that begins at i can end.
ShapeEnds(s, i) ==
    LET plain == Http \o ColonSlashSlash
        secure == Http \o <<"s">> \o ColonSlashSlash
        s1 == { j \in 1 .. Len(s) + 1 :
                  \/ IsAt(s, i, plain) /\ j = i + Len(plain)
                  \/ IsAt(s, i, secure) /\ j = i + Len(secure) }
        s2 == s1 \cup { j + Len(Www) : j \in { k \in s1 : IsAt(s, k, Www) } }
        s3 == UNION { { j + n : n \in HostMin .. RunLen(s, j, HostChars, HostMax) } :
                      j \in s2 }
        s4 == SuffixPlus(s, s3)
    IN s4 \cup { e + 1 : e \in { k \in s4 : k <= Len(s) /\ s[k] = "/" } }

\* s is of the shape, in full.
Conforms(s) == Len(s) + 1 \in ShapeEnds(s, 1)

\* Some substring of s is of the shape.
ContainsConforming(s) == \E i \in 1 .. Len(s) : ShapeEnds(s, i) # {}

\* __init__ raised MapperURLInvalidError and left no usable object.
Rejected ==
    /\ status = "error"
    /\ errmsg = InvalidMessage
    /\ domain = Unset /\ max_depth = Unset /\ rate_limit = Unset
    /\ visited = Unset /\ all_links = Unset

InDomain(u) == UrlParse(u).netloc = UrlParse(domain).netloc

\* The path of u does not end with a non-content extension.
ContentEligible(u) == \A ext \in NonContentExts : ~EndsWith(UrlParse(u).path, ext)

\* The hrefs of the page the site serves at u: none when the fetch fails.
HrefsAt(u) ==
    IF Respond(site, u).ok
    THEN { a.href : a \in { b \in Range(Respond(site, u).anchors) : b.has_href } }
    ELSE {}

\* The pages that the page at u links to by a followable link.
Edges(u) ==
    { v \in { Urljoin(domain, l) : l \in { h \in HrefsAt(u) : h # <<>> /\ Head(h) = "/" } } :
        InDomain(v) /\ ContentEligible(v) }

\* One more link from the pages of W.
Grow(W) == W \cup UNION { Edges(u) : u \in W }

RECURSIVE Within(_)
\* The pages a chain of at most k followable links reaches from the seed.
Within(k) == IF k = 0 THEN {domain} ELSE Grow(Within(k - 1))

\* No call is in progress.
Quiet == op = "none" /\ stack = <<>>

\* The call in progress, or the last one, is the first call on the Mapper
\* and is map_web_site().
FirstIsMap == pre.op = "map" /\ pre.last[1] = "none"

\* map_web_site() was the first call made on the Mapper.
BeganWithMap == pre.first = "map"

\* The URLs that were passed to requests.get.
Fetched == BagToSet(fetched)

\* C2 (as claimed): after map_web_site() on a fresh Mapper every page within
\* max_depth followable links of the seed is in visited, and every page
\* within max_depth + 1 links (the seed aside) is in all_links.
C2_DepthBoundedCompleteness ==
    (Quiet /\ FirstIsMap) =>
        /\ Within(max_depth) \subseteq visited
        /\ (Within(max_depth + 1) \ {domain}) \subseteq all_links

\* Ascending in code point order, without repetition.
Ascending(list) ==
    \A i \in DOMAIN list : \A j \in DOMAIN list : i < j => StrLess(list[i], list[j])

\* C3: the list map_web_site() returns holds exactly the elements of
\* all_links at the return, each once, in ascending order.
C3_ResultIsSortedAllLinks ==
    (Quiet /\ pre.op = "map") =>
        /\ Range(result) = all_links
        /\ Len(result) = Cardinality(all_links)
        /\ Ascending(result)

\* map_web_site() returned three links.
C3_Witness ==
    /\ Quiet /\ pre.op = "map"
    /\ Len(result) = 3

\* C4: every URL in all_links, and every URL fetched, is in-domain and
\* content-eligible, and the list returned holds no other.
C4_OnlyEligibleDiscovered ==
    /\ \A u \in all_links \cup Fetched : InDomain(u) /\ ContentEligible(u)
    /\ result # Unset => \A i \in DOMAIN result : InDomain(result[i]) /\ ContentEligible(result[i])

\* A page that links to another host by "//o.io/a" and to a PDF was
\* fetched, its links tried, and the crawl is over.
C4_Witness ==
    /\ Quiet
    /\ all_links # {}
    /\ \E u \in Fetched : Respond(site, u) = [ok |-> TRUE, anchors |-> MixedPage]

\* C5: from map_web_site() on a fresh Mapper on, the seed is in visited once
\* the crawl of the seed is past its guards, and is never in all_links nor
\* in a returned list.
C5_SeedNeverDiscovered ==
    BeganWithMap =>
        /\ domain \notin all_links
        /\ (stack = <<>> \/ stack[1].pc # "enter") => domain \in visited
        /\ result # Unset => domain \notin Range(result)

\* map_web_site() returned after a page that links back to the seed
\* ("//h.co") was fetched.
C5_Witness ==
    /\ Quiet /\ BeganWithMap
    /\ result # Unset
    /\ \E u \in Fetched : Respond(site, u) = [ok |-> TRUE, anchors |-> MixedPage]

\* The pages that were fetched and link to two or more pages other than
\* themselves and the seed.
Branching == { u \in Fetched : Cardinality(Edges(u) \ {u, domain}) >= 2 }

\* C6 (as claimed): after a full crawl from the seed at depth 0 of a site
\* where a crawled page links to two or more distinct followable sub-pages,
\* |visited| differs from |all_links|.
C6_CountsDiffer ==
    (Quiet /\ FirstIsMap /\ Branching # {}) =>
        Cardinality(visited) # Cardinality(all_links)

\* C6 (amended): after a full crawl from the seed at depth 0 on a fresh
\* Mapper, visited is the seed, which is not in all_links, and the URLs of
\* all_links that were visited; so |visited| = |all_links| exactly when one
\* discovered URL was left unvisited.
C6_CountsDifferUnlessOneUnvisited ==
    (Quiet /\ FirstIsMap) =>
        /\ domain \in visited /\ domain \notin all_links
        /\ visited \ {domain} \subseteq all_links
        /\ Cardinality(visited) = Cardinality(all_links \cap visited) + 1
        /\ (Cardinality(visited) = Cardinality(all_links))
               <=> (Cardinality(all_links \ visited) = 1)

\* A full crawl of a site with a branching page ended with as many
\* visited as discovered URLs.
C6_Witness ==
    /\ Quiet /\ FirstIsMap
    /\ Branching # {}
    /\ Cardinality(visited) = Cardinality(all_links)
    /\ Cardinality(all_links \ visited) = 1

(***************************************************************************)
(* Nesting, failures and the two guards of crawl.                          *)
(***************************************************************************)
\* The invocations of crawl that are past the two guards.
Descended == { i \in DOMAIN stack : stack[i].pc # "enter" }

\* No URL is descended into by two nested invocations, none is fetched twice.
NoTwice ==
    /\ \A i \in Descended : \A j \in Descended : stack[i].url = stack[j].url => i = j
    /\ \A u \in Fetched : CopiesIn(u, fetched) = 1

\* C7: whatever the links, the failures and max_depth, map_web_site()
\* returns; meanwhile at most max_depth + 2 invocations of crawl are nested
\* and no URL is descended into twice.
C7_Terminates ==
    /\ [](Len(stack) <= max_depth + 2 /\ NoTwice)
    /\ (op = "map") ~> (Quiet /\ result # Unset)

\* max_depth + 2 invocations are nested in a map_web_site() of a site where
\* /a links to itself, /a and /b link to each other, and max_depth is not 0.
C7_Witness ==
    /\ op = "map" /\ max_depth >= 1
    /\ Len(stack) = max_depth + 2
    /\ {PathA, PathB} \subseteq HrefsAt(Seed \o PathA)
    /\ PathA \in HrefsAt(Seed \o PathB)

\* The fetch of u fails.
Fails(u) == ~Respond(site, u).ok

\* The links found on the pages that were visited, the seed aside.
LinkedFromVisited == (UNION { Edges(u) : u \in visited }) \ {domain}

\* C8: a page whose fetch fails is like a page without links. It stays in
\* visited, its invocation has no link to loop over, it is fetched once,
\* and the crawl goes on: when map_web_site() on a fresh Mapper is over,
\* all_links is what the visited pages link to, the failed ones counting
\* for nothing, and the pages the seed links to were visited if max_depth
\* allows. When the seed fails, visited = {seed} and all_links is empty.
C8_FailedFetchIsEmptyPage ==
    /\ \A i \in DOMAIN stack :
           (stack[i].pc \in {"loop", "wait"} /\ Fails(stack[i].url)) =>
               stack[i].pc = "loop" /\ stack[i].todo = {}
    /\ \A u \in Fetched : Fails(u) => u \in visited /\ CopiesIn(u, fetched) = 1
    /\ (Quiet /\ FirstIsMap) =>
           /\ all_links = LinkedFromVisited
           /\ max_depth >= 1 => Edges(domain) \subseteq visited
           /\ Fails(domain) =>
                  visited = {domain} /\ all_links = {} /\ result = <<>>

\* map_web_site() is over on a site where the fetch of /a failed and /b,
\* which the seed links to as well, was fetched and linked further.
C8_Witness ==
    /\ Quiet /\ FirstIsMap
    /\ Fails(Seed \o PathA) /\ Seed \o PathA \in Fetched
    /\ Seed \o PathB \in Fetched /\ Edges(Seed \o PathB) # {}
    /\ Cardinality(all_links) = 3

\* The public call that is over, or in progress, left the Mapper and the
\* web as they were.
NoEffect ==
    /\ visited = pre.visited
    /\ all_links = pre.all_links
    /\ fetched = pre.fetched
    /\ waits = pre.waits

\* The innermost invocation returns at once and leaves the sets alone.
ReturnsAtOnce ==
    /\ stack' = SubSeq(stack, 1, Len(stack) - 1)
    /\ visited' = visited /\ all_links' = all_links /\ fetched' = fetched

\* C9: crawl(url, depth) with depth > max_depth returns at once, without a
\* fetch and with visited and all_links as they were, whether url was
\* visited or not; no invocation with such a depth gets past the guard.
C9_OverDepthIsNoOp ==
    /\ [][(Running /\ Top.pc = "enter" /\ Top.depth > max_depth) => ReturnsAtOnce]_vars
    /\ [](\A i \in Descended : stack[i].depth <= max_depth)
    /\ []((pre.op = "crawl" /\ pre.depth > max_depth) => NoEffect)

\* /b is being visited at a depth within the limit after crawl was invoked
\* on it at depth max_depth + 1, during a map_web_site().
C9_Witness ==
    /\ op = "map" /\ Running
    /\ Top.pc = "fetch" /\ Top.url = Seed \o PathB /\ Top.depth <= max_depth
    /\ <<Seed \o PathB, max_depth + 1>> \in invoked

\* C10: crawl(url, depth) on a url that is in visited fetches nothing and
\* leaves visited and all_links as they were; the second of two calls of
\* crawl with the same url and depth changes nothing; a map_web_site()
\* after a map_web_site() fetches nothing and returns the same list.
C10_RecrawlIsNoOp ==
    /\ (pre.op = "crawl" /\ pre.url \in pre.visited) => NoEffect
    /\ (pre.op = "crawl" /\ pre.last = <<"crawl", pre.url, pre.depth>>) => NoEffect
    /\ (pre.op = "map" /\ pre.last[1] = "map") =>
           /\ NoEffect
           /\ Quiet => result = pre.result

\* crawl was called a second time with the same url and a depth within the
\* limit, after the first call had fetched pages, and is over.
C10_Witness ==
    /\ Quiet
    /\ pre.op = "crawl" /\ pre.last = <<"crawl", pre.url, pre.depth>>
    /\ pre.depth <= max_depth
    /\ pre.url \in pre.visited
    /\ Cardinality(pre.visited) >= 2

(***************************************************************************)
(* The constructor's result.                                               *)
(***************************************************************************)
\* s without its last character when that is a slash.
WithoutSlash(s) ==
    IF s # <<>> /\ s[Len(s)] = "/" THEN SubSeq(s, 1, Len(s) - 1) ELSE s

\* C11: for an accepted seed the stored domain does not end with a slash;
\* for a seed of the shape in full it is the seed without its trailing
\* slash, the seed itself when it has none. visited and all_links are
\* empty, max_depth and rate_limit are the values given, 2 and 0.5 s when
\* none is given.
C11_DomainNormalized ==
    status = "ready" =>
        /\ domain # <<>> /\ domain[Len(domain)] # "/"
        /\ Conforms(arg) => domain = WithoutSlash(arg)
        /\ visited = {} /\ all_links = {}
        /\ max_depth = (IF "max_depth" \in DOMAIN kwargs THEN kwargs["max_depth"] ELSE 2)
        /\ rate_limit = (IF "rate_limit" \in DOMAIN kwargs THEN kwargs["rate_limit"] ELSE 5)

\* Mapper('https://www.h.co/') with neither max_depth nor rate_limit.
C11_Witness ==
    /\ status = "ready"
    /\ arg = Http \o <<"s">> \o ColonSlashSlash \o Www \o <<"h",".","c","o","/">>
    /\ domain = Http \o <<"s">> \o ColonSlashSlash \o Www \o <<"h",".","c","o">>
    /\ DOMAIN kwargs = {}

(***************************************************************************)
(* Fetches and waits.                                                      *)
(***************************************************************************)
\* The URLs that this step passes to requests.get.
FetchedNow == { u \in BagToSet(fetched') : CopiesIn(u, fetched') > CopiesIn(u, fetched) }

\* C12: over any calls of crawl and map_web_site on one Mapper, no URL is
\* fetched twice, a URL is in visited before it is fetched, whenever no
\* call is in progress the URLs fetched are those of visited, and no step
\* takes an element out of visited or all_links.
C12_AtMostOneFetch ==
    /\ [](\A u \in Fetched : CopiesIn(u, fetched) = 1 /\ u \in visited)
    /\ [](Quiet => Fetched = visited)
    /\ [][FetchedNow \subseteq visited]_vars
    /\ [][visited \subseteq visited' /\ all_links \subseteq all_links']_vars

\* Two public calls were made, the second fetched a page, and three pages
\* are visited.
C12_Witness ==
    /\ Quiet
    /\ pre.last[1] # "none"
    /\ fetched # pre.fetched
    /\ Cardinality(visited) >= 3

\* C13 (as claimed): in a crawl, a rate-limit wait runs between any two
\* consecutive fetches: when an invocation is about to fetch, a wait ran
\* since the last fetch of the call, if there was one.
C13_WaitBetweenFetches == (Running /\ Top.pc = "fetch" /\ rate_limit > 0) => spaced

\* The invocations whose recursive call, or the wait after it, is pending.
Pending == { i \in DOMAIN stack : stack[i].pc = "wait" }

\* C14: a wait runs only after a recursive crawl returned, once, before the
\* next link is examined, also when that crawl returned at the depth
\* guard; so the waits of a call are as many as the recursive invocations
\* that returned, all of them when the call is over; no wait runs before
\* the first fetch of a call, none for a link that is skipped.
C14_WaitPlacement ==
    /\ [](waits - pre.waits = descents - Cardinality(Pending))
    /\ [](Quiet => waits - pre.waits = descents)
    /\ [](fetched = pre.fetched => waits = pre.waits)
    /\ [][(Running /\ Top.pc = "wait") =>
              /\ waits' = waits + 1
              /\ stack' = SetTop([Top EXCEPT !.pc = "loop"])]_vars
    /\ [][waits' # waits => (Running /\ Top.pc = "wait")]_vars

\* map_web_site() with max_depth = 0 is over: the seed alone was fetched and
\* two waits ran, one after each crawl that returned at the depth guard.
C14_Witness ==
    /\ Quiet /\ FirstIsMap
    /\ max_depth = 0
    /\ Fetched = {domain}
    /\ descents = 2 /\ waits = 2

(***************************************************************************)
(* crawl as a function: what one call does to visited and all_links when   *)
(* every list(cleaned) comes out in ascending order.                       *)
(***************************************************************************)
RECURSIVE CrawlAscending(_, _, _)
RECURSIVE LoopAscending(_, _, _)

\* The body of the for loop, for the absolute URL of one link.
BodyAscending(sets, absolute_url, depth) ==
    IF IsValidUrl(absolute_url) /\ absolute_url \notin sets.visited
    THEN CrawlAscending([sets EXCEPT !.all_links = @ \cup {absolute_url}],
                        absolute_url, depth + 1)
    ELSE sets

\* for link in clean_links
LoopAscending(sets, clean_links, depth) ==
    IF clean_links = <<>> THEN sets
    ELSE The({ LoopAscending(after, Tail(clean_links), depth) :
                   after \in { BodyAscending(sets, absolute_url, depth) :
                                  absolute_url \in {Urljoin(domain, Head(clean_links))} } })

\* self.crawl(url, depth)
CrawlAscending(sets, url, depth) ==
    IF depth > max_depth THEN sets
    ELSE IF url \in sets.visited THEN sets
    ELSE The({ LoopAscending(entered, clean_links, depth) :
                   entered \in {[sets EXCEPT !.visited = @ \cup {url}]},
                   clean_links \in {Sorted(CleanLinks(FindLinks(GetPage(site, url))))} })

\* map_web_site() on a fresh Mapper, in ascending order.
MapAscending == CrawlAscending([visited |-> {}, all_links |-> {}], domain, 0)

\* C15 (as claimed): what map_web_site() on a fresh Mapper visits and
\* returns does not depend on the order in which the links of a page are
\* iterated: it is what the ascending order gives.
C15_OrderIndependent ==
    (Quiet /\ FirstIsMap) =>
        /\ visited = MapAscending.visited
        /\ result = Sorted(MapAscending.all_links)

(***************************************************************************)
(* visited against all_links.                                              *)
(***************************************************************************)
\* The depths at which crawl was invoked on u.
DepthsOf(u) == { c[2] : c \in { x \in invoked : x[1] = u } }

\* C16: during and after map_web_site() on a fresh Mapper every visited URL
\* but the seed is in all_links, and a URL of all_links that is not visited
\* when the call is over was passed to crawl, and at no other depth than
\* max_depth + 1.
C16_VisitedCoveredByDiscovered ==
    FirstIsMap =>
        /\ visited \subseteq all_links \cup {domain}
        /\ Quiet => \A u \in all_links \ visited : DepthsOf(u) = {max_depth + 1}

\* map_web_site() is over with three pages visited and a discovered URL
\* left unvisited.
C16_Witness ==
    /\ Quiet /\ FirstIsMap
    /\ Cardinality(visited) = 3
    /\ all_links \ visited # {}

\* The links of the page at u that are followable: not empty, beginning
\* with "/", and resolved to an in-domain, content-eligible URL.
FollowableFrom(u) ==
    { v \in { Urljoin(domain, h) : h \in { g \in HrefsAt(u) : g # <<>> /\ Head(g) = "/" } } :
        InDomain(v) /\ ContentEligible(v) }

\* No followable link of a visited page is lost.
Closed == \A u \in visited : FollowableFrom(u) \subseteq all_links \cup {domain}

\* C17 (as claimed): whenever map_web_site() returns, every followable link
\* of every visited page that was fetched is the seed or in all_links.
C17_ClosedAtEveryReturn == (Quiet /\ pre.op = "map") => Closed

\* C17 (amended): when map_web_site() returns on a fresh Mapper (no call of
\* crawl or map_web_site before it), every followable link of every visited
\* page that was fetched is the seed or in all_links.
C17_ClosedAfterFirstMap == (Quiet /\ FirstIsMap) => Closed

\* map_web_site() on a fresh Mapper is over; a visited page holds links
\* that are refused and a link to /c, which was discovered.
C17_Witness ==
    /\ Quiet /\ FirstIsMap
    /\ \E u \in visited : Respond(site, u) = [ok |-> TRUE, anchors |-> MixedPage]
    /\ Seed \o PathC \in all_links
    /\ Cardinality(all_links) >= 2

(***************************************************************************)
(* C18: what _is_valid_url accepts.                                        *)
(***************************************************************************)
\* The host and port of the domain: the domain is a scheme, "://" and these.
DomainHost ==
    IF IsAt(domain, 1, Http \o <<"s">> \o ColonSlashSlash)
    THEN From(domain, 9)
    ELSE From(domain, 8)

\* C18: _is_valid_url(url) is true exactly when the network location of url
\* is that of the domain and the path of url ends with none of the six
\* extensions. Whatever the scheme, a URL on another host (the domain's
\* without "www." too) is refused, an http or https URL of a page on the
\* domain's host is accepted, and a string without scheme and network
\* location is refused.
C18_ValidIffSameNetlocAndContent ==
    (Quiet /\ pre.op = "_is_valid_url") =>
        /\ result = (InDomain(pre.input) /\ ContentEligible(pre.input))
        /\ \A s \in UrlSchemes, h \in UrlHosts, p \in UrlPaths :
               pre.input = s \o h \o p =>
                   /\ h # DomainHost => result = FALSE
                   /\ Www \o h = DomainHost => result = FALSE
                   /\ s = <<>> => result = FALSE
                   /\ ( /\ s \in { Http \o ColonSlashSlash, Http \o <<"s">> \o ColonSlashSlash }
                        /\ h = DomainHost
                        /\ p \in { <<>>, <<"/">>, PathA } ) => result = TRUE
                   /\ (s # <<>> /\ h = DomainHost /\ p \in { PathA \o ext : ext \in NonContentExts })
                          => result = FALSE

\* _is_valid_url accepted the https URL of a page of an http domain.
C18_Witness ==
    /\ Quiet /\ pre.op = "_is_valid_url"
    /\ domain = Seed
    /\ pre.input = Http \o <<"s">> \o ColonSlashSlash \o <<"h",".","c","o">> \o PathA
    /\ result = TRUE

(***************************************************************************)
(* C19: _clean_links on links that are valid already.                      *)
(***************************************************************************)
\* Every link of the list is non-empty and starts with "/".
AlreadyValid(links) == \A i \in DOMAIN links : links[i] # <<>> /\ links[i][1] = "/"

\* No link is in the list twice.
Distinct(links) == \A i, j \in DOMAIN links : links[i] = links[j] => i = j

\* _clean_links returned a list as long as its input, with the same links.
NothingDropped == Len(result) = Len(pre.input) /\ Range(result) = Range(pre.input)

\* C19 (as claimed): from every list of non-empty links that start with "/"
\* _clean_links returns a list of equal length with no entry dropped, and
\* from its own output it returns the same links.
C19_NothingDropped ==
    (Quiet /\ pre.op = "_clean_links") =>
        /\ AlreadyValid(pre.input) => NothingDropped
        /\ pre.again => NothingDropped

\* C19 (amended): from every list of non-empty links that start with "/",
\* none of them twice, _clean_links returns a list of equal length with the
\* same links; from any such list it returns each of its links once; and
\* from its own output it returns the same links.
C19_NothingDroppedOfDistinct ==
    (Quiet /\ pre.op = "_clean_links") =>
        /\ (AlreadyValid(pre.input) /\ Distinct(pre.input)) => NothingDropped
        /\ AlreadyValid(pre.input) => (Range(result) = Range(pre.input) /\ Distinct(result))
        /\ pre.again => NothingDropped

\* _clean_links was given three valid links and then its own output, and
\* returned the three links both times.
C19_Witness ==
    /\ Quiet /\ pre.op = "_clean_links" /\ pre.again
    /\ Len(pre.input) = MaxLinks /\ Len(result) = MaxLinks
    /\ PathA \in Range(result)

(***************************************************************************)
(* C20: the links that do not start with "/".                              *)
(***************************************************************************)
\* The link starts with "/".
Relative(link) == link # <<>> /\ link[1] = "/"

\* The URLs that the links starting with "/" of the visited pages resolve to.
ResolvedFromVisited ==
    { Urljoin(domain, l) : l \in { h \in UNION { HrefsAt(u) : u \in visited } : Relative(h) } }

\* The URLs crawl was invoked on, discovered or fetched, the seed apart.
Reached == ({ c[1] : c \in invoked } \cup all_links \cup Fetched) \ {domain}

\* C20: every link _clean_links returns is a link of its input that starts
\* with "/", so the result is empty when no link of the input does; and in
\* a crawl the loop goes over such links of the page only, so what is
\* discovered or fetched is resolved from a link that starts with "/", and
\* a page that only an absolute link leads to is never reached.
C20_OnlyRelativeLinks ==
    /\ (Quiet /\ pre.op = "_clean_links") =>
           /\ \A i \in DOMAIN result : result[i] \in Range(pre.input) /\ Relative(result[i])
           /\ (\A i \in DOMAIN pre.input : ~Relative(pre.input[i])) => result = <<>>
    /\ \A i \in DOMAIN stack :
           \A link \in stack[i].todo : link \in HrefsAt(stack[i].url) /\ Relative(link)
    /\ Reached \subseteq ResolvedFromVisited
    /\ (domain = Seed /\ site[Seed].anchors = MixedPage) => Seed \o PathB \notin Reached

\* map_web_site() crawled a seed page that links to /b by an absolute link
\* and to /c by a relative one, and then _clean_links returned an empty
\* list from absolute links and an empty string.
C20_Witness ==
    /\ Quiet /\ pre.op = "_clean_links"
    /\ domain = Seed /\ site[Seed].anchors = MixedPage
    /\ Seed \o PathC \in Fetched
    /\ Seed \o PathB \in Range(pre.input) /\ <<>> \in Range(pre.input)
    /\ Len(pre.input) = MaxLinks
    /\ result = <<>>

====
